---- MODULE Spec2Model ----
(***************************************************************************)
(* The batching delivery buffer of LokiService (src/src/loki/loki.service.ts)*)
(* as a state machine.  Node runs every handler to its first await without  *)
(* interleaving, so each action below is one such synchronous stretch: an   *)
(* append with the flush it triggers, a timer callback, a forced flush, the *)
(* settlement of one pending HTTP push, and the steps of onModuleDestroy.   *)
(***************************************************************************)
EXTENDS Integers, Sequences, FiniteSets, TLC

\* ------------------------------------------------------------------ bounds

\* config.loki.batchSize (default 10), scaled down.
BatchSize == 2
\* The literal 1000 of flushLogs' re-queue test, scaled down.
OverflowThreshold == 3
\* Number of entries pushLog/pushLogs accept in a run.
MaxEntries == 5
\* Number of HTTP pushes pending at once.
MaxInFlight == 2
\* Longest array handed to pushLogs.
MaxPushLogs == 2

\* ------------------------------------------------------------------ values

\* lastError === undefined
NoError == "undefined"

\* Field values an incoming LogEntry may carry ("" is falsy in JavaScript).
InputEntries ==
    { [message |-> "m", device_id |-> "d1", severity |-> "info"],
      [message |-> "",  device_id |-> "d1", severity |-> "info"],
      [message |-> "m", device_id |-> "",   severity |-> "info"],
      [message |-> "m", device_id |-> "d1", severity |-> ""] }

\* What the sink may answer to one push: a status code, or no answer in time.
Responses == {"204", "200", "500", "timeout"}

VARIABLES
    logBuffer,       \* this.logBuffer: the live buffer
    inFlight,        \* the logsToSend of every flushLogs call awaiting sendToLoki
    lastFlush,       \* this.lastFlush (0 = undefined)
    lastError,       \* this.lastError
    isShuttingDown,  \* this.isShuttingDown
    intervalId,      \* TRUE while the setInterval timer is armed
    destroyPc,       \* position of onModuleDestroy: "idle", "waiting", "settled", "done"
    destroyBatch,    \* the batch whose flush onModuleDestroy is awaiting
    delivered,       \* entries of batches the sink accepted
    dropped,         \* entries of batches dropped by the overflow policy
    nextId,          \* number of entries accepted so far, plus one
    now,             \* the clock read by new Date()
    lastResponse,    \* what the sink answered to the push that settled last
    topic,           \* handleMessage's topic argument
    payload,         \* handleMessage's payload, as the text of payload.toString()
    topicParts,      \* the segments the publisher joined with '/' into the topic
    published,       \* what the publisher serialized into the payload
    logEntry,        \* what handleMessage did: the LogEntry it handed to pushLog
    logsToSend,      \* the entries handed to convertToLokiFormat
    lokiRequests,    \* what the calls of convertToLokiFormat on them returned
    lastReturn       \* how the promise of the flushLogs that settled last ended

\* The variables of MqttSubscriberService.handleMessage.
mqttVars == <<topic, payload, topicParts, published, logEntry>>

\* The variables of LokiService.convertToLokiFormat.
formatVars == <<logsToSend, lokiRequests>>

vars == <<logBuffer, inFlight, lastFlush, lastError, isShuttingDown, intervalId,
          destroyPc, destroyBatch, delivered, dropped, nextId, now, lastResponse,
          mqttVars, formatVars, lastReturn>>

\* ------------------------------------------------------------------ helpers

Range(s) == {s[i] : i \in 1..Len(s)}

\* A validation that does not look at the severity.
IsInvalidIgnoringSeverity(entry) == entry.message = "" \/ entry.device_id = ""

\* !entry.message || !entry.device_id || !entry.severity
IsInvalid(entry) == entry.message = "" \/ entry.device_id = "" \/ entry.severity = ""

\* The object pushed on the buffer; id is the order of acceptance.
Stored(entry, id) ==
    [id |-> id, message |-> entry.message, device_id |-> entry.device_id,
     severity |-> entry.severity]

\* A size test that fires only above the threshold.
ShouldFlushStrict(buf) == Len(buf) > BatchSize

\* this.logBuffer.length >= this.config.loki.batchSize
ShouldFlush(buf) == Len(buf) >= BatchSize

\* const logsToSend = [...this.logBuffer]
LogsToSend(buf) == buf

\* A detach that forgets to reset the live buffer.
BufferKept(buf) == buf

\* A detach that keeps the newest entry in the live buffer.
BufferKeepsLast(buf) == <<buf[Len(buf)]>>

\* this.logBuffer = []
BufferAfterDetach(buf) == <<>>

\* An overflow test that still re-queues at exactly the threshold.
CanRequeueAtThreshold(buf) == Len(buf) <= OverflowThreshold

\* this.logBuffer.length < 1000
CanRequeue(buf) == Len(buf) < OverflowThreshold

\* A re-queue that pushes the batch behind the newer entries.
RequeueAtTail(buf, batch) == IF CanRequeue(buf) THEN buf \o batch ELSE buf

\* A re-queue that overwrites the live buffer with the batch.
RequeueOverwrite(buf, batch) == IF CanRequeue(buf) THEN batch ELSE buf

\* The catch branch of flushLogs: unshift the batch unless the buffer is full.
Requeue(buf, batch) == IF CanRequeue(buf) THEN batch \o buf ELSE buf

\* The warn branch of flushLogs: what the overflow policy throws away.
DroppedBy(buf, batch) == IF CanRequeue(buf) THEN {} ELSE Range(batch)

\* A sendToLoki that takes every 2xx status for success.
SendToLokiAny2xx(response) ==
    IF response \in {"204", "200"} THEN NoError
    ELSE IF response = "500" THEN "Loki API error: 500"
    ELSE "Loki API error: undefined"

\* sendToLoki: the error message it throws, NoError when it returns normally.
SendToLoki(response) ==
    IF response = "204" THEN NoError
    ELSE IF response = "200" THEN "Unexpected response status: 200"
    ELSE IF response = "500" THEN "Loki API error: 500"
    ELSE "Loki API error: undefined"

\* A success path that leaves the recorded error in place.
ErrorKept(prev) == prev

\* this.lastError = undefined, after a successful push.
ErrorAfterSuccess(prev) == NoError

\* A catch branch that records the error only when it re-queues the batch.
ErrorOnlyWhenRequeued(prev, err, buf) == IF CanRequeue(buf) THEN err ELSE prev

\* this.lastError = errorMessage, in the catch branch of flushLogs.
ErrorAfterFailure(prev, err, buf) == err

\* A timer that flushes only a full buffer.
TimerFiresWhenFull(buf, shuttingDown) == Len(buf) >= BatchSize /\ ~shuttingDown

\* The interval callback's test.
TimerFires(buf, shuttingDown) == Len(buf) > 0 /\ ~shuttingDown

\* getStatus().status
Status == IF lastError # NoError THEN "error" ELSE "active"

\* getStatus().bufferedLogs
BufferedLogs == Len(logBuffer)

\* No flush has ended yet.
NoReturn == "none"

\* A flushLogs whose catch branch throws the error on.
FlushLogsRethrows(err) == IF err = NoError THEN "resolved" ELSE "rejected"

\* How the promise of flushLogs ends when sendToLoki threw err (NoError: it
\* returned): the catch branch records the error and does not throw.
FlushLogsEnds(err) == "resolved"

\* await this.flushLogs() as a caller's last statement: the caller's promise
\* ends as that of flushLogs does.
AwaitEnds(flushEnd) == flushEnd

\* The fields of LokiService and what they may hold.
TypeOK ==
    /\ logBuffer \in Seq([id : 1..MaxEntries, message : {"m"}, device_id : {"d1"},
                          severity : {"info"}])
    /\ \A b \in inFlight : Len(b) > 0
    /\ Cardinality(inFlight) <= MaxInFlight
    /\ lastFlush \in 0..MaxEntries
    /\ lastError \in {SendToLoki(r) : r \in Responses}
    /\ isShuttingDown \in BOOLEAN
    /\ intervalId \in BOOLEAN
    /\ destroyPc \in {"idle", "waiting", "settled", "done"}
    /\ nextId \in 1..(MaxEntries + 1)
    /\ lastResponse \in Responses \cup {"none"}

\* ------------------------------------------------------------------ actions

Init ==
    /\ logBuffer = <<>>
    /\ inFlight = {}
    /\ lastFlush = 0
    /\ lastError = NoError
    /\ isShuttingDown = FALSE
    /\ intervalId = TRUE
    /\ destroyPc = "idle"
    /\ destroyBatch = <<>>
    /\ delivered = {}
    /\ dropped = {}
    /\ nextId = 1
    /\ now = 0
    /\ lastResponse = "none"
    /\ topic = ""
    /\ payload = ""
    /\ topicParts = <<>>
    /\ published = [json |-> FALSE, value |-> "", text |-> ""]
    /\ logEntry = [t |-> "none"]
    /\ logsToSend = <<>>
    /\ lokiRequests = <<>>
    /\ lastReturn = NoReturn

\* A flushLogs without the early return on an empty buffer.
FlushLogsDetachesEmpty(buf) ==
    /\ Cardinality(inFlight) < MaxInFlight
    /\ inFlight' = inFlight \cup {LogsToSend(buf)}
    /\ logBuffer' = BufferAfterDetach(buf)

\* flushLogs applied to buffer contents buf, up to its await of sendToLoki.
FlushLogs(buf) ==
    IF Len(buf) = 0
    THEN /\ logBuffer' = buf
         /\ inFlight' = inFlight
    ELSE /\ Cardinality(inFlight) < MaxInFlight
         /\ inFlight' = inFlight \cup {LogsToSend(buf)}
         /\ logBuffer' = BufferAfterDetach(buf)

\* A pushLog without the isShuttingDown test.
PushLogWhileShuttingDown(entry) ==
    /\ nextId <= MaxEntries
    /\ IF IsInvalid(entry)
       THEN UNCHANGED <<logBuffer, inFlight, nextId>>
       ELSE LET buf == Append(logBuffer, Stored(entry, nextId)) IN
            /\ nextId' = nextId + 1
            /\ IF ShouldFlush(buf)
               THEN FlushLogs(buf)
               ELSE /\ logBuffer' = buf
                    /\ inFlight' = inFlight
    /\ UNCHANGED <<lastFlush, lastError, isShuttingDown, intervalId, destroyPc,
                   destroyBatch, delivered, dropped, now, lastResponse, mqttVars,
                   formatVars, lastReturn>>

PushLog(entry) ==
    /\ nextId <= MaxEntries
    /\ IF isShuttingDown \/ IsInvalid(entry)
       THEN UNCHANGED <<logBuffer, inFlight, nextId>>
       ELSE LET buf == Append(logBuffer, Stored(entry, nextId)) IN
            /\ nextId' = nextId + 1
            /\ IF ShouldFlush(buf)
               THEN FlushLogs(buf)
               ELSE /\ logBuffer' = buf
                    /\ inFlight' = inFlight
    /\ UNCHANGED <<lastFlush, lastError, isShuttingDown, intervalId, destroyPc,
                   destroyBatch, delivered, dropped, now, lastResponse, mqttVars,
                   formatVars, lastReturn>>

\* entries.filter(valid).map(store), numbered from id.
RECURSIVE ValidEntries(_, _)
ValidEntries(entries, id) ==
    IF entries = <<>> THEN <<>>
    ELSE IF IsInvalid(Head(entries)) THEN ValidEntries(Tail(entries), id)
    ELSE <<Stored(Head(entries), id)>> \o ValidEntries(Tail(entries), id + 1)

PushLogs(entries) ==
    /\ IF isShuttingDown
       THEN UNCHANGED <<logBuffer, inFlight, nextId>>
       ELSE LET validEntries == ValidEntries(entries, nextId)
                buf == logBuffer \o validEntries IN
            /\ nextId + Len(validEntries) <= MaxEntries + 1
            /\ nextId' = nextId + Len(validEntries)
            /\ IF ShouldFlush(buf)
               THEN FlushLogs(buf)
               ELSE /\ logBuffer' = buf
                    /\ inFlight' = inFlight
    /\ UNCHANGED <<lastFlush, lastError, isShuttingDown, intervalId, destroyPc,
                   destroyBatch, delivered, dropped, now, lastResponse, mqttVars,
                   formatVars, lastReturn>>

\* One firing of the setInterval callback.
TimerTick ==
    /\ intervalId
    /\ IF TimerFires(logBuffer, isShuttingDown)
       THEN FlushLogs(logBuffer)
       ELSE UNCHANGED <<logBuffer, inFlight>>
    /\ UNCHANGED <<lastFlush, lastError, isShuttingDown, intervalId, destroyPc,
                   destroyBatch, delivered, dropped, nextId, now, lastResponse, mqttVars,
                   formatVars, lastReturn>>

ForceFlush ==
    /\ FlushLogs(logBuffer)
    /\ UNCHANGED <<lastFlush, lastError, isShuttingDown, intervalId, destroyPc,
                   destroyBatch, delivered, dropped, nextId, now, lastResponse, mqttVars,
                   formatVars, lastReturn>>

\* The pending push of batch settles with the sink's response: the rest of
\* flushLogs, from the return of sendToLoki to the end of try or catch.
Settle(batch, response) ==
    /\ batch \in inFlight
    /\ inFlight' = inFlight \ {batch}
    /\ lastResponse' = response
    /\ lastReturn' = AwaitEnds(FlushLogsEnds(SendToLoki(response)))
    /\ UNCHANGED <<mqttVars, formatVars>>
    /\ LET err == SendToLoki(response) IN
       IF err = NoError
       THEN /\ now' = now + 1
            /\ lastFlush' = now'
            /\ lastError' = ErrorAfterSuccess(lastError)
            /\ delivered' = delivered \cup Range(batch)
            /\ UNCHANGED <<logBuffer, dropped>>
       ELSE /\ lastError' = ErrorAfterFailure(lastError, err, logBuffer)
            /\ logBuffer' = Requeue(logBuffer, batch)
            /\ dropped' = dropped \cup DroppedBy(logBuffer, batch)
            /\ UNCHANGED <<lastFlush, delivered, now>>
    /\ destroyPc' = IF destroyPc = "waiting" /\ batch = destroyBatch
                    THEN "settled" ELSE destroyPc
    /\ UNCHANGED <<isShuttingDown, intervalId, destroyBatch, nextId>>

\* An onModuleDestroy that forgets clearInterval.
DestroyKeepsTimer ==
    /\ destroyPc = "idle"
    /\ isShuttingDown' = TRUE
    /\ intervalId' = intervalId
    /\ FlushLogs(logBuffer)
    /\ destroyPc' = IF Len(logBuffer) > 0 THEN "waiting" ELSE "done"
    /\ destroyBatch' = IF Len(logBuffer) > 0 THEN LogsToSend(logBuffer) ELSE <<>>
    /\ UNCHANGED <<lastFlush, lastError, delivered, dropped, nextId, now, lastResponse, mqttVars,
                   formatVars, lastReturn>>

\* onModuleDestroy up to its await of Promise.race.
Destroy ==
    /\ destroyPc = "idle"
    /\ isShuttingDown' = TRUE
    /\ intervalId' = FALSE
    /\ FlushLogs(logBuffer)
    /\ destroyPc' = IF Len(logBuffer) > 0 THEN "waiting" ELSE "done"
    /\ destroyBatch' = IF Len(logBuffer) > 0 THEN LogsToSend(logBuffer) ELSE <<>>
    /\ UNCHANGED <<lastFlush, lastError, delivered, dropped, nextId, now, lastResponse, mqttVars,
                   formatVars, lastReturn>>

\* The final flush returned first: Promise.race resolves.
DestroyFlushed ==
    /\ destroyPc = "settled"
    /\ destroyPc' = "done"
    /\ UNCHANGED <<logBuffer, inFlight, lastFlush, lastError, isShuttingDown,
                   intervalId, destroyBatch, delivered, dropped, nextId, now, lastResponse, mqttVars,
                   formatVars, lastReturn>>

\* A wait for the final flush with no timer beside it.
DestroyNoTimeout ==
    /\ destroyPc = "waiting"
    /\ destroyPc' = "waiting"
    /\ UNCHANGED <<logBuffer, inFlight, lastFlush, lastError, isShuttingDown,
                   intervalId, destroyBatch, delivered, dropped, nextId, now, lastResponse, mqttVars,
                   formatVars, lastReturn>>

\* The 5000 ms timer fired first: Promise.race rejects with 'Flush timeout'.
DestroyTimeout ==
    /\ destroyPc = "waiting"
    /\ destroyPc' = "done"
    /\ UNCHANGED <<logBuffer, inFlight, lastFlush, lastError, isShuttingDown,
                   intervalId, destroyBatch, delivered, dropped, nextId, now, lastResponse, mqttVars,
                   formatVars, lastReturn>>

\* The arrays handed to pushLogs: valid entries and entries without a message.
PushLogsInputs ==
    UNION {[1..n -> {e \in InputEntries : e.device_id # "" /\ e.severity # ""}] :
               n \in 0..MaxPushLogs}

Next ==
    \/ \E entry \in InputEntries : PushLog(entry)
    \/ \E entries \in PushLogsInputs : PushLogs(entries)
    \/ TimerTick
    \/ ForceFlush
    \/ \E batch \in inFlight, response \in Responses : Settle(batch, response)
    \/ Destroy
    \/ DestroyFlushed
    \/ DestroyTimeout

Spec == Init /\ [][Next]_vars

\* Every pending push eventually settles (the HTTP client's timeout), and the
\* interval timer keeps firing while it is armed.
FairSpec ==
    /\ Init /\ [][Next]_vars
    /\ WF_vars(TimerTick)
    /\ WF_vars(\E batch \in inFlight, response \in Responses : Settle(batch, response))

\* The timers of onModuleDestroy run: the 5000 ms timeout fires unless the final
\* flush returns first, and the awaiting code resumes.  Nothing is assumed about
\* the sink: a pending push may never settle.
ShutdownSpec ==
    /\ Init /\ [][Next]_vars
    /\ WF_vars(DestroyTimeout)
    /\ WF_vars(DestroyFlushed)

\* ------------------------------------------------------------------ claims

\* Batches whose push starts in this step, and the batch that settles in it.
Started == inFlight' \ inFlight
Settled == inFlight \ inFlight'

\* Number of entries accepted by pushLog/pushLogs in this step.
Accepted == nextId' - nextId

\* A delivery failed in this step: a batch left flight and nothing was delivered.
FailedStep(b) == b \in Settled /\ delivered' = delivered

\* A delivery succeeded in this step.
SucceededStep(b) == b \in Settled /\ delivered' # delivered

\* batch is the buffer's contents followed by the entries accepted in this step.
IsBufferPlusAccepted(batch) ==
    /\ Len(batch) = Len(logBuffer) + Accepted
    /\ SubSeq(batch, 1, Len(logBuffer)) = logBuffer
    /\ \A i \in 1..Accepted : /\ batch[Len(logBuffer) + i].id = nextId + i - 1
                              /\ ~IsInvalid(batch[Len(logBuffer) + i])

\* C1: when a flush starts its delivery attempt, the batch in flight is exactly
\* what the live buffer held (with the entries accepted by the triggering append
\* at its tail), in the same order, and the live buffer is empty in that same
\* step, so that no append falls between the detach and the reset.
C1_DetachBeforeDeliver ==
    [][\A b \in Started : /\ IsBufferPlusAccepted(b)
                           /\ logBuffer' = <<>>
                           /\ Started = {b}]_vars

\* A flush has detached a re-queued batch together with a newer entry: all of
\* them are in flight in their order and the live buffer is empty.
C1_Witness ==
    /\ logBuffer = <<>>
    /\ lastError # NoError
    /\ \E b \in inFlight : /\ Len(b) = BatchSize + 1
                            /\ \A i \in 1..Len(b) : b[i].id = i

\* C2: an entry appended while a flush is in flight does not enter a batch
\* already in flight (those batches stay as they are until they settle), stays
\* in the live buffer until the next flush, and is then part of the batch that
\* flush detaches.
C2_AppendDuringFlight ==
    [][/\ Accepted > 0 =>
            /\ inFlight \subseteq inFlight'
            /\ \A b \in inFlight : \A i \in 1..Len(b) : b[i].id < nextId
       /\ Cardinality(Settled) <= 1
       /\ \A i \in 1..Len(logBuffer) :
            \/ \E j \in 1..Len(logBuffer') : logBuffer'[j] = logBuffer[i]
            \/ \E b \in Started : \E j \in 1..Len(b) : b[j] = logBuffer[i]]_vars

\* Entry 2 was appended while the batch holding entry 1 was in flight, and
\* nothing has settled yet.
C2_Witness ==
    /\ inFlight = {<<Stored([message |-> "m", device_id |-> "d1", severity |-> "info"], 1)>>}
    /\ Len(logBuffer) = 1 /\ logBuffer[1].id = 2
    /\ delivered = {} /\ dropped = {} /\ lastError = NoError

\* C3: at most one flush is in flight at any time.
C3_OneFlushInFlight == Cardinality(inFlight) <= 1

\* C4: when a delivery fails while the live buffer is shorter than the overflow
\* threshold, the whole batch goes back to the head of the live buffer in its
\* own order, ahead of the entries appended meanwhile, which keep their order.
C4_RequeueAtHead ==
    [][\A b \in Settled :
          (FailedStep(b) /\ Len(logBuffer) < OverflowThreshold)
              => /\ logBuffer' = b \o logBuffer
                 /\ dropped' = dropped]_vars

\* The batch the size threshold flushed failed and is back at the head, ahead
\* of the entry appended during the attempt.
C4_Witness ==
    /\ lastError # NoError
    /\ inFlight = {} /\ delivered = {} /\ dropped = {}
    /\ Len(logBuffer) = BatchSize + 1
    /\ \A i \in 1..Len(logBuffer) : logBuffer[i].id = i

\* C5: when a delivery fails while the live buffer already holds at least the
\* overflow threshold (exactly the threshold included), the whole batch is
\* dropped and the live buffer is left as it was.
C5_DropWhenFull ==
    [][\A b \in Settled :
          (FailedStep(b) /\ Len(logBuffer) >= OverflowThreshold)
              => /\ logBuffer' = logBuffer
                 /\ Range(b) \cap Range(logBuffer') = {}
                 /\ dropped' = dropped \cup Range(b)]_vars

\* A batch was dropped against a live buffer of exactly the threshold's length.
C5_Witness ==
    /\ dropped # {}
    /\ Len(logBuffer) = OverflowThreshold
    /\ lastError # NoError

\* C6: the live buffer stays below the overflow threshold plus the size
\* threshold: a failed batch is put back only onto a buffer shorter than the
\* overflow threshold, and appends alone never leave the size threshold standing.
C6_MemoryBounded == Len(logBuffer) < OverflowThreshold + BatchSize

\* How many places hold the entry accepted as number id.
Places(id) ==
    Cardinality({i \in 1..Len(logBuffer) : logBuffer[i].id = id})
    + Cardinality({<<b, i>> \in inFlight \X (1..MaxEntries) :
                       i <= Len(b) /\ b[i].id = id})
    + Cardinality({e \in delivered : e.id = id})
    + Cardinality({e \in dropped : e.id = id})

\* C7: every accepted entry is in exactly one place: the live buffer, one batch
\* in flight, the delivered set or the dropped set; nothing else is anywhere.
C7_Conserved ==
    /\ \A id \in 1..(nextId - 1) : Places(id) = 1
    /\ \A id \in nextId..MaxEntries : Places(id) = 0

\* All entries have been accepted and are spread over the live buffer, the
\* delivered set and the dropped set.
C7_Witness ==
    /\ nextId = MaxEntries + 1
    /\ logBuffer # <<>> /\ delivered # {} /\ dropped # {}

InBuffer(id) == \E i \in 1..Len(logBuffer) : logBuffer[i].id = id
InFlightEntry(id) == \E b \in inFlight : \E i \in 1..Len(b) : b[i].id = id

\* C8: while shutdown has not begun, an entry in the live buffer is eventually
\* part of a batch whose delivery is attempted, whether or not the size
\* threshold is ever reached.
C8_EventuallyAttempted ==
    \A id \in 1..MaxEntries :
        (InBuffer(id) /\ ~isShuttingDown) ~> (InFlightEntry(id) \/ isShuttingDown)

\* A batch shorter than the size threshold is in flight with shutdown not begun.
C8_Witness ==
    /\ ~isShuttingDown
    /\ \E b \in inFlight : Len(b) < BatchSize
    /\ logBuffer = <<>> /\ lastError = NoError /\ delivered = {}
    /\ nextId = 2

\* C9: an append puts the accepted entries at the tail of the live buffer; when
\* the resulting length reaches the size threshold a flush of that buffer starts
\* in the same step, and below the threshold no flush starts.
C9_AppendAndSizeTrigger ==
    [][Accepted > 0 =>
          IF Len(logBuffer) + Accepted >= BatchSize
          THEN /\ logBuffer' = <<>>
               /\ \E b \in Started : IsBufferPlusAccepted(b)
          ELSE /\ IsBufferPlusAccepted(logBuffer')
               /\ inFlight' = inFlight]_vars

\* The append that reached the size threshold started the first flush.
C9_Witness ==
    /\ nextId = BatchSize + 1
    /\ logBuffer = <<>>
    /\ \E b \in inFlight : Len(b) = BatchSize
    /\ delivered = {} /\ dropped = {} /\ lastError = NoError

\* C10: when a delivery succeeds none of the batch returns to the live buffer,
\* lastFlush is set to the time of the success, lastError is cleared and the
\* status snapshot reports 'active'.
C10_SuccessDiscards ==
    [][\A b \in Settled :
          SucceededStep(b)
              => /\ logBuffer' = logBuffer
                 /\ Range(b) \cap Range(logBuffer') = {}
                 /\ Range(b) \subseteq delivered'
                 /\ lastFlush' = now' /\ lastFlush' > lastFlush
                 /\ lastError' = NoError
                 /\ Status' = "active"]_vars

\* A success came after a failure that had dropped a batch: the error is gone.
C10_Witness ==
    /\ delivered # {} /\ dropped # {}
    /\ lastError = NoError /\ lastFlush > 0 /\ Status = "active"

\* C11: when a delivery fails, lastError becomes the description of that
\* failure, whether the batch is re-queued or dropped by the overflow policy,
\* and lastFlush keeps its value.
C11_FailureRecorded ==
    [][\A b \in Settled :
          FailedStep(b)
              => /\ lastFlush' = lastFlush
                 /\ lastError' # NoError
                 /\ lastResponse' = "200" => lastError' = "Unexpected response status: 200"
                 /\ lastResponse' = "500" => lastError' = "Loki API error: 500"
                 /\ lastResponse' = "timeout" => lastError' = "Loki API error: undefined"]_vars

\* A batch was dropped after an earlier success: the last failure is recorded
\* and the time of the success is still there.
C11_Witness ==
    /\ dropped # {}
    /\ lastError = "Loki API error: 500"
    /\ lastFlush > 0

\* C12: once onModuleDestroy has been called it completes, also when the push
\* of its final flush never settles: the wait for that flush is bounded.
C12_ShutdownTerminates == (destroyPc # "idle") ~> (destroyPc = "done")

\* onModuleDestroy has returned while the push of its final flush is pending.
C12_Witness ==
    /\ destroyPc = "done"
    /\ destroyBatch # <<>>
    /\ destroyBatch \in inFlight

\* C13 as claimed: once shutdown has begun no flush starts any more, so entries
\* left in the live buffer are never attempted again.
C13_NoFlushAfterShutdown == [][isShuttingDown => Started = {}]_vars

\* C13 as amended: the step that begins shutdown disarms the interval timer and
\* starts exactly one flush, of the whole live buffer, or none when the buffer
\* is empty; from then on the timer stays disarmed and the only step that
\* starts a flush is an explicit forceFlush.
C13_ShutdownFlushesOnce ==
    [][/\ (~isShuttingDown /\ isShuttingDown')
            => /\ ~intervalId'
               /\ Started = IF logBuffer # <<>> THEN {logBuffer} ELSE {}
       /\ isShuttingDown => (~intervalId /\ ~intervalId' /\ isShuttingDown')
       /\ (isShuttingDown /\ Started # {}) => ForceFlush]_vars

\* Shutdown is over, its final flush failed and the entries it put back stay
\* in the live buffer with no push pending.
C13_Witness ==
    /\ destroyPc = "done"
    /\ destroyBatch # <<>>
    /\ logBuffer = destroyBatch
    /\ inFlight = {}
    /\ lastError # NoError

\* An entry lacks its message, its device identity or its severity.
Incomplete(e) == e.message = "" \/ e.device_id = "" \/ e.severity = ""

\* Non-empty arrays for pushLogs in which every entry is incomplete.
IncompleteArrays ==
    {entries \in PushLogsInputs :
        entries # <<>> /\ \A i \in 1..Len(entries) : Incomplete(entries[i])}

\* Every entry in the live buffer and in every batch in flight is complete.
BufferedComplete ==
    /\ \A i \in 1..Len(logBuffer) : ~Incomplete(logBuffer[i])
    /\ \A b \in inFlight : \A i \in 1..Len(b) : ~Incomplete(b[i])

\* C14 as claimed: buffered entries are complete, and an append of an incomplete
\* entry, through pushLog or pushLogs, leaves the live buffer unchanged and
\* starts no flush.
C14_IncompleteIsNoOp ==
    [][/\ BufferedComplete /\ BufferedComplete'
       /\ \A e \in InputEntries :
             (Incomplete(e) /\ PushLog(e)) => UNCHANGED <<logBuffer, inFlight>>
       /\ \A entries \in IncompleteArrays :
            PushLogs(entries) => UNCHANGED <<logBuffer, inFlight>>]_vars

\* C14 as amended: buffered entries are complete; pushLog of an incomplete entry
\* leaves the live buffer unchanged and starts no flush; pushLogs buffers none
\* of the incomplete entries of its array, and starts a flush only of a live
\* buffer that had already reached the size threshold.
C14_IncompleteNeverBuffered ==
    [][/\ BufferedComplete /\ BufferedComplete'
       /\ \A e \in InputEntries :
             (Incomplete(e) /\ PushLog(e)) => UNCHANGED <<logBuffer, inFlight>>
       /\ \A entries \in IncompleteArrays :
            PushLogs(entries)
                => /\ nextId' = nextId
                   /\ IF Len(logBuffer) >= BatchSize /\ ~isShuttingDown
                      THEN Started = {logBuffer} /\ logBuffer' = <<>>
                      ELSE UNCHANGED <<logBuffer, inFlight>>]_vars

\* A re-queued batch has left the live buffer at the size threshold, so that
\* pushLogs of an array holding one entry without message starts a flush.
C14_Witness ==
    /\ ~isShuttingDown
    /\ Len(logBuffer) >= BatchSize
    /\ ENABLED (/\ PushLogs(<<[message |-> "", device_id |-> "d1", severity |-> "info"]>>)
                /\ logBuffer' = <<>>)

\* ------------------------------------------- MqttSubscriberService: values
\* (src/unnamed/part_002)  Strings are TLA+ strings, read with Len and SubSeq.

\* Longest topic, in segments.
MaxSegments == 3

\* The words a publisher puts between the '/' of a topic.
SegmentWords ==
    {"smtrack", "dev42", "logs", "error", "alert", "warning", "warn", "debug"}

\* JavaScript values: a type tag and the value's text.
Undefined == [t |-> "undefined", v |-> ""]
Null == [t |-> "null", v |-> ""]
Str(s) == [t |-> "string", v |-> s]
Num(s) == [t |-> "number", v |-> s]
Obj(s) == [t |-> "object", v |-> s]

\* Object.prototype.constructor and Object.prototype itself, which every
\* object literal inherits under the keys "constructor" and "__proto__".
ObjectConstructor == [t |-> "function", v |-> "Object"]
ObjectPrototype == [t |-> "object", v |-> "[Object: null prototype] {}"]

\* The TypeError raised by a property read on null or a call of undefined.
TypeError == [t |-> "throw", v |-> "TypeError"]

\* ToBoolean.
Truthy(x) ==
    CASE x.t \in {"undefined", "null", "throw"} -> FALSE
      [] x.t = "string" -> x.v # ""
      [] x.t = "number" -> x.v # "0"
      [] OTHER -> TRUE

\* s.includes(sub)
Includes(s, sub) ==
    \E i \in 1..(Len(s) - Len(sub) + 1) : SubSeq(s, i, i + Len(sub) - 1) = sub

UpperLetters == "ABCDEFGHIJKLMNOPQRSTUVWXYZ"
LowerLetters == "abcdefghijklmnopqrstuvwxyz"

\* One character of s.toLowerCase().
LowerChar(c) ==
    IF \E i \in 1..26 : SubSeq(UpperLetters, i, i) = c
    THEN LET i == CHOOSE i \in 1..26 : SubSeq(UpperLetters, i, i) = c
         IN SubSeq(LowerLetters, i, i)
    ELSE c

\* s.toLowerCase()
RECURSIVE ToLowerCase(_)
ToLowerCase(s) ==
    IF s = "" THEN ""
    ELSE LowerChar(SubSeq(s, 1, 1)) \o ToLowerCase(SubSeq(s, 2, Len(s)))

\* s.split('/')
RECURSIVE Split(_)
Split(s) ==
    IF Includes(s, "/")
    THEN LET i == CHOOSE i \in 1..Len(s) :
                      /\ SubSeq(s, i, i) = "/"
                      /\ \A j \in 1..(i - 1) : SubSeq(s, j, j) # "/"
         IN <<SubSeq(s, 1, i - 1)>> \o Split(SubSeq(s, i + 1, Len(s)))
    ELSE <<s>>

\* parts.join('/'): how a publisher builds a topic from its segments.
RECURSIVE Join(_)
Join(parts) ==
    IF Len(parts) = 1 THEN parts[1]
    ELSE parts[1] \o "/" \o Join(Tail(parts))

\* The text of a string inside JSON: quotes and backslashes escaped.
RECURSIVE Escape(_)
Escape(s) ==
    IF s = "" THEN ""
    ELSE LET c == SubSeq(s, 1, 1) IN
         (IF c = "\"" \/ c = "\\" THEN "\\" \o c ELSE c)
             \o Escape(SubSeq(s, 2, Len(s)))

\* JSON.stringify of a string.
Quote(s) == "\"" \o Escape(s) \o "\""

\* ------------------------------------------ MqttSubscriberService: payloads

\* The fields handleMessage reads from a parsed payload; Undefined when absent.
Fields(deviceId, message, severity, level, metadata, timestamp) ==
    [deviceId |-> deviceId, message |-> message, severity |-> severity,
     level |-> level, metadata |-> metadata, timestamp |-> timestamp]

NoFields == Fields(Undefined, Undefined, Undefined, Undefined, Undefined, Undefined)

\* What JSON.parse returns: an object with its fields, or a primitive.
JsonObject(f) == [t |-> "object", v |-> "", f |-> f]
JsonPrimitive(x) == [t |-> x.t, v |-> x.v, f |-> NoFields]

\* Values a publisher gives each field (a number where a string is expected,
\* an empty string, an unknown word and an inherited property name included).
MessageValues == {Str("oops"), Str("warn soon"), Str("read failed"), Str("")}
SeverityValues ==
    {Str("warn"), Str("Error"), Str("bogus"), Str("constructor"), Num("5")}
LevelValues == {Str("debug"), Str("bogus"), Num("5")}
DeviceIdValues == {Str("dev7"), Str("")}
MetadataValues == {Obj("{\"fw\":\"1.2\"}")}
TimestampValues ==
    {Str("2024-01-01T00:00:00.000Z"), Str("garbage"), Num("8640000000000000")}

\* The structured payloads: every combination of message, severity and level,
\* and records carrying a deviceId, a metadata or a timestamp.
JsonValues ==
    {JsonObject(Fields(Undefined, m, s, l, Undefined, Undefined)) :
        m \in MessageValues \cup {Undefined},
        s \in SeverityValues \cup {Undefined},
        l \in LevelValues \cup {Undefined}}
    \cup {JsonObject(Fields(d, m, Undefined, Undefined, Undefined, Undefined)) :
            d \in DeviceIdValues, m \in {Undefined, Str("oops")}}
    \cup {JsonObject(Fields(Undefined, m, Undefined, Undefined, md, Undefined)) :
            md \in MetadataValues, m \in {Undefined, Str("oops")}}
    \cup {JsonObject(Fields(Undefined, m, Undefined, Undefined, Undefined, ts)) :
            ts \in TimestampValues, m \in {Undefined, Str("oops")}}
    \cup {JsonPrimitive(Null), JsonPrimitive(Num("42")), JsonPrimitive(Str("hello"))}

\* Payloads that are no JSON text.
PlainTexts == {"hello", "read failed", "warn soon", "{\"message\":", ""}

\* JSON.stringify of a field's value.
StringifyValue(x) ==
    CASE x.t = "string" -> Quote(x.v)
      [] x.t = "null" -> "null"
      [] OTHER -> x.v

\* One "key":value member, or nothing for an absent field.
Member(key, x) ==
    IF x.t = "undefined" THEN <<>> ELSE <<Quote(key) \o ":" \o StringifyValue(x)>>

\* members.join(',')
RECURSIVE JoinMembers(_)
JoinMembers(members) ==
    IF members = <<>> THEN ""
    ELSE IF Len(members) = 1 THEN members[1]
    ELSE members[1] \o "," \o JoinMembers(Tail(members))

\* JSON.stringify of a parsed payload; members keep the payload's order.
JSONStringify(x) ==
    IF x.t = "object"
    THEN "{" \o JoinMembers(Member("deviceId", x.f.deviceId)
                            \o Member("message", x.f.message)
                            \o Member("severity", x.f.severity)
                            \o Member("level", x.f.level)
                            \o Member("metadata", x.f.metadata)
                            \o Member("timestamp", x.f.timestamp)) \o "}"
    ELSE StringifyValue(x)

\* The text of every structured payload.
JsonTexts == [x \in JsonValues |-> JSONStringify(x)]

\* A SyntaxError of JSON.parse.
SyntaxError == [t |-> "throw", v |-> "SyntaxError", f |-> NoFields]

\* JSON.parse: the value whose text this is, or a SyntaxError.
JSONParse(text) ==
    IF \E x \in JsonValues : JsonTexts[x] = text
    THEN CHOOSE x \in JsonValues : JsonTexts[x] = text
    ELSE SyntaxError

\* What a publisher sends: a structured value or a plain text.
Published ==
    {[json |-> TRUE, value |-> x, text |-> JsonTexts[x]] : x \in JsonValues}
    \cup {[json |-> FALSE, value |-> SyntaxError, text |-> s] : s \in PlainTexts}

\* The topics: one to MaxSegments words joined by '/'.
TopicParts == UNION {[1..n -> SegmentWords] : n \in 1..MaxSegments}

\* ----------------------------------------- MqttSubscriberService: functions

\* parts[i], with JavaScript's 0-based index; undefined outside the array.
ArrayAt(parts, i) == IF i \in 0..(Len(parts) - 1) THEN Str(parts[i + 1]) ELSE Undefined

\* A device identity that is always the topic's second segment.
ExtractSecondSegment(t) ==
    LET parts == Split(t) IN
    IF Len(parts) >= 2 THEN Str(parts[2]) ELSE Str("unknown")

\* extractDeviceIdFromTopic
ExtractDeviceIdFromTopic(t) ==
    LET parts == Split(t) IN
    IF Len(parts) >= 3 THEN ArrayAt(parts, 1)
    ELSE IF Len(parts) = 2 THEN ArrayAt(parts, 0)
    ELSE LET last == ArrayAt(parts, Len(parts) - 2) IN
         IF Truthy(last) THEN last ELSE Str("unknown")

\* The own properties of the severityMap object literal.
SeverityAliases ==
    [debug |-> "debug", info |-> "info", information |-> "info",
     warn |-> "warning", warning |-> "warning", error |-> "error",
     err |-> "error", critical |-> "critical", crit |-> "critical",
     fatal |-> "critical"]

\* severityMap[key]: an own property, else what the object literal inherits
\* from Object.prototype, else undefined.
SeverityMapGet(key) ==
    IF key \in DOMAIN SeverityAliases THEN Str(SeverityAliases[key])
    ELSE IF key = "constructor" THEN ObjectConstructor
    ELSE IF key = "__proto__" THEN ObjectPrototype
    ELSE Undefined

\* mapToLogSeverity; severity.toLowerCase is undefined on a non-string.
MapToLogSeverity(severity) ==
    IF ~Truthy(severity) THEN Undefined
    ELSE IF severity.t # "string" THEN TypeError
    ELSE SeverityMapGet(ToLowerCase(severity.v))

\* The topic patterns of inferMessageType; undefined when none matches.
TopicHint(t) ==
    IF Includes(t, "/error") \/ Includes(t, "/alert") THEN Str("error")
    ELSE IF Includes(t, "/warning") \/ Includes(t, "/warn") THEN Str("warning")
    ELSE IF Includes(t, "/debug") THEN Str("debug")
    ELSE Undefined

\* The keyword scan of inferMessageType over the lowercased text.
KeywordScan(lowerMessage) ==
    IF \/ Includes(lowerMessage, "error")
       \/ Includes(lowerMessage, "exception")
       \/ Includes(lowerMessage, "fail")
    THEN Str("error")
    ELSE IF Includes(lowerMessage, "warn") THEN Str("warning")
    ELSE Str("info")

\* inferMessageType(topic, message)
InferMessageType(t, message) ==
    IF TopicHint(t) # Undefined THEN TopicHint(t)
    ELSE LET mapped == IF Truthy(message.f.level)
                       THEN MapToLogSeverity(message.f.level)
                       ELSE Undefined
         IN IF mapped.t = "throw" THEN mapped
            ELSE IF Truthy(mapped) THEN mapped
            ELSE LET messageText == IF message.t = "string" THEN message.v
                                    ELSE JSONStringify(message)
                 IN KeywordScan(ToLowerCase(messageText))

\* A resolution in which the inferred severity overrides the explicit one.
InferredFirst(explicit, t, parsedMessage) ==
    IF explicit.t = "throw" THEN explicit ELSE InferMessageType(t, parsedMessage)

\* mapToLogSeverity(parsedMessage.severity) || inferMessageType(topic, parsedMessage)
ExplicitOrInferred(explicit, t, parsedMessage) ==
    IF explicit.t = "throw" THEN explicit
    ELSE IF Truthy(explicit) THEN explicit
    ELSE InferMessageType(t, parsedMessage)

\* Date texts that new Date() parses to a valid time.
ValidDateTexts == {"2024-01-01T00:00:00.000Z"}

\* new Date(x): a valid time, or the Invalid Date object.
NewDate(x) ==
    IF x.t = "number" \/ (x.t = "string" /\ x.v \in ValidDateTexts)
    THEN [t |-> "date", v |-> x.v]
    ELSE [t |-> "date", v |-> "Invalid Date"]

\* new Date(): the time of ingestion.
Now == [t |-> "date", v |-> "now"]

IoTMessage(deviceId, message, severity, metadata, timestamp) ==
    [t |-> "IoTMessage", deviceId |-> deviceId, message |-> message,
     severity |-> severity, metadata |-> metadata, timestamp |-> timestamp]

\* normalizeMessage; a TypeError when parsedMessage is null or when
\* severity or level is truthy and no string.
NormalizeMessage(parsedMessage, t) ==
    IF parsedMessage.t = "null" THEN TypeError
    ELSE LET f == parsedMessage.f
             deviceId == IF Truthy(f.deviceId) THEN f.deviceId
                         ELSE ExtractDeviceIdFromTopic(t)
             message == IF f.message.t = "string" THEN f.message
                        ELSE Str(JSONStringify(parsedMessage))
             severity == ExplicitOrInferred(MapToLogSeverity(f.severity), t,
                                            parsedMessage)
             timestamp == IF Truthy(f.timestamp) THEN NewDate(f.timestamp) ELSE Now
         IN IF severity.t = "throw" THEN severity
            ELSE IoTMessage(deviceId, message, severity, f.metadata, timestamp)

\* A plain-text message whose severity is always info.
CreatePlainTextInfo(text, t) ==
    IoTMessage(ExtractDeviceIdFromTopic(t), Str(text), Str("info"), Undefined, Now)

\* createPlainTextMessage
CreatePlainTextMessage(text, t) ==
    IoTMessage(ExtractDeviceIdFromTopic(t), Str(text),
               InferMessageType(t, JsonObject(Fields(Undefined, Str(text), Undefined,
                                                     Undefined, Undefined, Undefined))),
               Undefined, Now)

\* convertToLogEntry
ConvertToLogEntry(message) ==
    [t |-> "LogEntry",
     message |-> IF message.message.t = "string" THEN message.message.v
                 ELSE StringifyValue(message.message),
     device_id |-> message.deviceId,
     severity |-> message.severity,
     timestamp |-> IF Truthy(message.timestamp) THEN message.timestamp ELSE Now,
     labels |-> [severity |-> message.severity,
                 device_id |-> message.deviceId,
                 source |-> "smtrack-logging",
                 metadata |-> IF Truthy(message.metadata)
                              THEN Str(StringifyValue(message.metadata))
                              ELSE Undefined]]

\* Nothing handled yet, and the outer catch of handleMessage.
NoEntry == [t |-> "none"]
Failed == [t |-> "error"]

\* A handleMessage whose inner try has no catch.
LogEntryWithoutFallback(t, messageStr) ==
    LET parsedMessage == JSONParse(messageStr)
        message == IF parsedMessage.t = "throw" THEN parsedMessage
                   ELSE NormalizeMessage(parsedMessage, t)
    IN IF message.t = "throw" THEN Failed ELSE ConvertToLogEntry(message)

\* What handleMessage hands to lokiService.pushLog, or its outer catch.
LogEntryOf(t, messageStr) ==
    LET parsedMessage == JSONParse(messageStr)
        normalized == IF parsedMessage.t = "throw" THEN parsedMessage
                      ELSE NormalizeMessage(parsedMessage, t)
        message == IF normalized.t = "throw"
                   THEN CreatePlainTextMessage(messageStr, t)
                   ELSE normalized
    IN IF message.t = "throw" THEN Failed ELSE ConvertToLogEntry(message)

\* ------------------------------------------- MqttSubscriberService: actions

\* A message arrives: the publisher's topic and payload, nothing handled yet.
MqttInit ==
    /\ logBuffer = <<>>
    /\ inFlight = {}
    /\ lastFlush = 0
    /\ lastError = NoError
    /\ isShuttingDown = FALSE
    /\ intervalId = TRUE
    /\ destroyPc = "idle"
    /\ destroyBatch = <<>>
    /\ delivered = {}
    /\ dropped = {}
    /\ nextId = 1
    /\ now = 0
    /\ lastResponse = "none"
    /\ topicParts \in TopicParts
    /\ topic = Join(topicParts)
    /\ published \in Published
    /\ payload = published.text
    /\ logEntry = NoEntry
    /\ logsToSend = <<>>
    /\ lokiRequests = <<>>
    /\ lastReturn = NoReturn

\* handleMessage: the LogEntry it builds from the message and hands to
\* lokiService.pushLog, whose effect on the buffer is the PushLog action.
HandleMessage ==
    /\ logEntry = NoEntry
    /\ logEntry' = LogEntryOf(topic, payload)
    /\ UNCHANGED <<logBuffer, inFlight, lastFlush, lastError, isShuttingDown,
                   intervalId, destroyPc, destroyBatch, delivered, dropped, nextId,
                   now, lastResponse, topic, payload, topicParts, published,
                   formatVars, lastReturn>>

MqttNext == HandleMessage

MqttSpec == MqttInit /\ [][MqttNext]_vars

\* ------------------------------------------------- claims about the normalizer

\* s begins with prefix.
StartsWith(s, prefix) == Len(s) >= Len(prefix) /\ SubSeq(s, 1, Len(prefix)) = prefix

\* Some segment after the first begins with word: the topic holds '/' word.
SegmentHint(word) ==
    \E i \in 2..Len(topicParts) : StartsWith(topicParts[i], word)

\* The severity the topic's segments hint at, "none" when they hint at nothing.
HintOfParts ==
    IF SegmentHint("error") \/ SegmentHint("alert") THEN "error"
    ELSE IF SegmentHint("warn") THEN "warning"
    ELSE IF SegmentHint("debug") THEN "debug"
    ELSE "none"

\* The device identity the topic's segments give.
DeviceOfParts ==
    IF Len(topicParts) >= 3 THEN topicParts[2]
    ELSE IF Len(topicParts) = 2 THEN topicParts[1]
    ELSE "unknown"

\* The message has been handled.
Handled == logEntry # NoEntry

\* The publisher sent a structured record with a number as its severity.
NumberAsSeverity == published.json /\ published.value.f.severity.t = "number"

\* C15: handling a message always yields a LogEntry, never the outer catch;
\* a payload that is no JSON, that is the JSON null, or whose severity is a
\* number is handled as plain text: the message is the raw payload text and
\* the device identity comes from the topic.
C15_NormalizationTotal ==
    Handled =>
        /\ logEntry.t = "LogEntry"
        /\ (~published.json \/ published.value.t = "null" \/ NumberAsSeverity)
              => /\ logEntry.message = payload
                 /\ logEntry.device_id = Str(DeviceOfParts)
                 /\ logEntry.labels.metadata = Undefined

\* A record with message "oops" and severity 5 was handled as plain text.
C15_Witness ==
    /\ Handled
    /\ NumberAsSeverity
    /\ published.value.f.message = Str("oops")
    /\ logEntry.t = "LogEntry"
    /\ logEntry.message = payload
    /\ logEntry.message # "oops"

\* The severity the keywords of a plain text give.
KeywordsOfText(text) ==
    IF Includes(text, "error") \/ Includes(text, "exception") \/ Includes(text, "fail")
    THEN "error"
    ELSE IF Includes(text, "warn") THEN "warning"
    ELSE "info"

\* C16: for a payload that is no JSON the entry's message is the payload text
\* verbatim, its device identity is the one the topic gives, and its severity
\* is the topic's hint or, without one, what the keywords of the text give.
C16_PlainTextVerbatim ==
    (Handled /\ ~published.json) =>
        /\ logEntry.t = "LogEntry"
        /\ logEntry.message = published.text
        /\ logEntry.device_id = Str(DeviceOfParts)
        /\ logEntry.severity =
              Str(IF HintOfParts # "none" THEN HintOfParts
                  ELSE KeywordsOfText(published.text))

\* Topic smtrack/dev42/logs with the text hello gave dev42, hello, info.
C16_Witness ==
    /\ topic = "smtrack/dev42/logs"
    /\ payload = "hello"
    /\ logEntry.t = "LogEntry"
    /\ logEntry.device_id = Str("dev42")
    /\ logEntry.message = "hello"
    /\ logEntry.severity = Str("info")

\* The entry's device identity was derived from the topic: the payload named
\* no device, or only an empty one.
DeviceFromTopic ==
    /\ Handled
    /\ logEntry.t = "LogEntry"
    /\ published.value.f.deviceId \in {Undefined, Str("")}

\* C17: a device identity derived from the topic is the second segment of a
\* topic of three or more segments, the first segment of a topic of two, and
\* 'unknown' for a topic of one segment.
C17_DeviceFromTopic ==
    DeviceFromTopic =>
        /\ Len(topicParts) >= 3 => logEntry.device_id = Str(topicParts[2])
        /\ Len(topicParts) = 2 => logEntry.device_id = Str(topicParts[1])
        /\ Len(topicParts) = 1 => logEntry.device_id = Str("unknown")

\* A topic of one segment gave the device identity 'unknown'.
C17_Witness ==
    /\ DeviceFromTopic
    /\ Len(topicParts) = 1
    /\ topic = "logs"
    /\ logEntry.device_id = Str("unknown")

\* The explicit severity of the structured record the publisher sent;
\* Undefined for a plain text and for a record without one.
ExplicitSeverity == published.value.f.severity

\* The alias table: what a word maps to, any letter case, "none" if unknown.
AliasOf(word) ==
    LET w == ToLowerCase(word) IN
    CASE w = "debug" -> "debug"
      [] w \in {"info", "information"} -> "info"
      [] w \in {"warn", "warning"} -> "warning"
      [] w \in {"error", "err"} -> "error"
      [] w \in {"critical", "crit", "fatal"} -> "critical"
      [] OTHER -> "none"

\* The explicit severity is a word of the alias table.
Recognised == ExplicitSeverity.t = "string" /\ AliasOf(ExplicitSeverity.v) # "none"

\* C18: an explicit severity the alias table recognises, in any letter case,
\* is the entry's severity whatever the topic, the level field and the message
\* say; with an absent or unrecognised explicit severity a topic that carries
\* a hint decides.
C18_ExplicitSeverityFirst ==
    (Handled /\ published.json /\ published.value.t = "object") =>
        /\ Recognised => logEntry.severity = Str(AliasOf(ExplicitSeverity.v))
        /\ (~Recognised /\ HintOfParts # "none")
              => logEntry.severity = Str(HintOfParts)

\* C19 as claimed: an explicit severity "warn" on a topic containing /error
\* is classified as error.
C19_WarnOnErrorTopicIsError ==
    (Handled /\ ExplicitSeverity = Str("warn") /\ SegmentHint("error"))
        => logEntry.severity = Str("error")

\* C19 as amended: an explicit severity "warn" on a topic containing /error
\* is classified as warning, the explicit severity taking precedence.
C19_WarnOnErrorTopicIsWarning ==
    (Handled /\ ExplicitSeverity = Str("warn") /\ SegmentHint("error"))
        => logEntry.severity = Str("warning")

\* Severity "warn" published on smtrack/dev42/error was classified as warning.
C19_Witness ==
    /\ topic = "smtrack/dev42/error"
    /\ ExplicitSeverity = Str("warn")
    /\ logEntry.t = "LogEntry"
    /\ logEntry.severity = Str("warning")

\* C20: with no recognised explicit severity the topic decides before the
\* content: /error or /alert gives error, else /warning or /warn gives
\* warning, else /debug gives debug, whatever the level field and the text.
C20_TopicHintsBeforeContent ==
    (Handled /\ ~Recognised) =>
        /\ (SegmentHint("error") \/ SegmentHint("alert"))
              => logEntry.severity = Str("error")
        /\ (~SegmentHint("error") /\ ~SegmentHint("alert") /\ SegmentHint("warn"))
              => logEntry.severity = Str("warning")
        /\ (~SegmentHint("error") /\ ~SegmentHint("alert") /\ ~SegmentHint("warn")
               /\ SegmentHint("debug"))
              => logEntry.severity = Str("debug")

\* ------------------------------------------ LokiService.convertToLokiFormat
\* (src/src/loki/loki.service.ts)  The entries are those handleMessage builds.

\* Longest batch handed to convertToLokiFormat.
MaxBatchLen == 3
\* Number of times the same batch is converted (a failed batch is retried).
MaxConversions == 2

\* pushLog's validation of a LogEntry whose fields are JavaScript values.
IsInvalidEntry(entry) ==
    entry.message = "" \/ ~Truthy(entry.device_id) \/ ~Truthy(entry.severity)


\* What pushLog puts on the buffer: { ...entry, timestamp: entry.timestamp ||
\* new Date() }; id is the entry's place in the order of acceptance.
StoredEntry(entry, id, clock) ==
    [id |-> id, message |-> entry.message, device_id |-> entry.device_id,
     severity |-> entry.severity,
     timestamp |-> IF Truthy(entry.timestamp) THEN entry.timestamp ELSE clock,
     labels |-> entry.labels]

\* Topics and payloads of the messages whose entries fill the batches.
SampleTopics == {"smtrack/dev42/logs", "smtrack/dev42/error"}
SamplePayloads ==
    {p.text : p \in {q \in Published :
        q.text \in {"hello",
                    "{\"message\":\"oops\"}",
                    "{\"message\":\"oops\",\"metadata\":{\"fw\":\"1.2\"}}",
                    "{\"message\":\"oops\",\"timestamp\":\"garbage\"}",
                    "{\"message\":\"oops\",\"timestamp\":\"2024-01-01T00:00:00.000Z\"}",
                    "{\"message\":\"oops\",\"timestamp\":8640000000000000}",
                    "{\"severity\":\"constructor\"}"}}}

\* The entries handleMessage hands to pushLog and pushLog accepts.
FormatEntries ==
    {e \in {LogEntryOf(t, p) : t \in SampleTopics, p \in SamplePayloads} :
        e.t = "LogEntry" /\ ~IsInvalidEntry(e)}

\* The batches: one to MaxBatchLen accepted entries, stored in their order.
Batches ==
    UNION {{[i \in 1..n |-> StoredEntry(f[i], i, Now)] :
                f \in [1..n -> FormatEntries]} : n \in 1..MaxBatchLen}

\* { severity, device_id, ...entry.labels } as key/value pairs in insertion
\* order; the labels both callers build carry their own severity and
\* device_id, which the spread writes over the first two.
LabelsOf(entry) ==
    << <<"severity", entry.labels.severity>>,
       <<"device_id", entry.labels.device_id>>,
       <<"source", Str(entry.labels.source)>>,
       <<"metadata", entry.labels.metadata>> >>

\* Labels reduced to severity and device_id.
SeverityAndDevice(entry) ==
    << <<"severity", entry.labels.severity>>,
       <<"device_id", entry.labels.device_id>> >>

\* The properties JSON.stringify writes: it skips undefined and functions.
Serializable(pairs) ==
    SelectSeq(pairs, LAMBDA p : p[2].t \notin {"undefined", "function"})

\* The "key":value members of an object's properties.
RECURSIVE Members(_)
Members(pairs) ==
    IF pairs = <<>> THEN <<>>
    ELSE Member(pairs[1][1], pairs[1][2]) \o Members(Tail(pairs))

\* A stream key that ignores the extra labels.
StreamKeyWithoutExtras(entry) ==
    "{" \o JoinMembers(Members(Serializable(SeverityAndDevice(entry)))) \o "}"

\* const streamKey = JSON.stringify(labels)
StreamKey(entry) == "{" \o JoinMembers(Members(Serializable(LabelsOf(entry)))) \o "}"

\* A stream map that puts a new entry first in its stream.
RECURSIVE GroupNewestFirst(_, _)
GroupNewestFirst(streamMap, entries) ==
    IF entries = <<>> THEN streamMap
    ELSE LET entry == Head(entries)
             streamKey == StreamKey(entry)
         IN GroupNewestFirst(
                IF \E i \in 1..Len(streamMap) : streamMap[i].key = streamKey
                THEN [i \in 1..Len(streamMap) |->
                        IF streamMap[i].key = streamKey
                        THEN [streamMap[i] EXCEPT !.logs = <<entry>> \o @]
                        ELSE streamMap[i]]
                ELSE Append(streamMap, [key |-> streamKey, logs |-> <<entry>>]),
                Tail(entries))

\* The streamMap after entries.forEach: keys in order of first use, each with
\* the entries pushed under it.
RECURSIVE GroupByKey(_, _)
GroupByKey(streamMap, entries) ==
    IF entries = <<>> THEN streamMap
    ELSE LET entry == Head(entries)
             streamKey == StreamKey(entry)
         IN GroupByKey(
                IF \E i \in 1..Len(streamMap) : streamMap[i].key = streamKey
                THEN [i \in 1..Len(streamMap) |->
                        IF streamMap[i].key = streamKey
                        THEN [streamMap[i] EXCEPT !.logs = Append(@, entry)]
                        ELSE streamMap[i]]
                ELSE Append(streamMap, [key |-> streamKey, logs |-> <<entry>>]),
                Tail(entries))

\* Milliseconds of the time of ingestion and of the texts new Date() parses.
IngestionMillis == "1767225600000"
ParsedMillis == "1704067200000"

\* The clock's reading n ticks after ingestion.
ClockDate(n) ==
    [t |-> "date", v |-> "176722560000" \o SubSeq("123456789", n + 1, n + 1)]

\* timestamp.getTime(): milliseconds since the epoch as decimal text, NaN
\* for the Invalid Date.
GetTime(date) ==
    CASE date.v = "Invalid Date" -> "NaN"
      [] date.v = "now" -> IngestionMillis
      [] date.v \in ValidDateTexts -> ParsedMillis
      [] OTHER -> date.v

\* s without its trailing zeros.
RECURSIVE StripZeros(_)
StripZeros(s) ==
    IF s # "" /\ SubSeq(s, Len(s), Len(s)) = "0"
    THEN StripZeros(SubSeq(s, 1, Len(s) - 1))
    ELSE s

\* Two decimal digits of n.
TwoDigits(n) ==
    SubSeq("0123456789", (n \div 10) + 1, (n \div 10) + 1)
        \o SubSeq("0123456789", (n % 10) + 1, (n % 10) + 1)

\* (ms * 1000000).toString(): the digits of ms and six zeros; from 1e21 on
\* Number.prototype.toString writes an exponent.  (A product of up to 15
\* significant digits keeps them through the rounding to a double.)
TimesMillionToString(ms) ==
    IF ms = "NaN" THEN "NaN"
    ELSE IF ms = "0" THEN "0"
    ELSE IF Len(ms) + 6 > 21
    THEN LET digits == StripZeros(ms) IN
         SubSeq(digits, 1, 1)
             \o (IF Len(digits) > 1 THEN "." \o SubSeq(digits, 2, Len(digits)) ELSE "")
             \o "e+" \o TwoDigits(Len(ms) + 5)
    ELSE ms \o "000000"

\* A conversion that reads the clock for every entry.
NanosecondsAtConversion(log, clock) == TimesMillionToString(GetTime(ClockDate(clock)))

\* (timestamp.getTime() * 1000000).toString() with
\* timestamp = log.timestamp || new Date()
Nanoseconds(log, clock) ==
    TimesMillionToString(
        GetTime(IF Truthy(log.timestamp) THEN log.timestamp ELSE ClockDate(clock)))

\* streamMap.forEach: per key the labels JSON.parse reads back from it and
\* the [nanoseconds, message] pairs of its entries; ids records which
\* entries of the batch the pairs came from.
Streams(streamMap, clock) ==
    [k \in 1..Len(streamMap) |->
        [stream |-> Serializable(LabelsOf(streamMap[k].logs[1])),
         values |-> [i \in 1..Len(streamMap[k].logs) |->
                        <<Nanoseconds(streamMap[k].logs[i], clock),
                          streamMap[k].logs[i].message>>],
         ids |-> [i \in 1..Len(streamMap[k].logs) |-> streamMap[k].logs[i].id]]]

\* convertToLokiFormat
ConvertToLokiFormat(entries, clock) ==
    [streams |-> Streams(GroupByKey(<<>>, entries), clock)]

\* A batch is about to be sent: nothing converted yet.
FormatInit ==
    /\ logBuffer = <<>>
    /\ inFlight = {}
    /\ lastFlush = 0
    /\ lastError = NoError
    /\ isShuttingDown = FALSE
    /\ intervalId = TRUE
    /\ destroyPc = "idle"
    /\ destroyBatch = <<>>
    /\ delivered = {}
    /\ dropped = {}
    /\ nextId = 1
    /\ now = 0
    /\ lastResponse = "none"
    /\ topic = ""
    /\ payload = ""
    /\ topicParts = <<>>
    /\ published = [json |-> FALSE, value |-> "", text |-> ""]
    /\ logEntry = NoEntry
    /\ logsToSend \in Batches
    /\ lokiRequests = <<>>
    /\ lastReturn = NoReturn

\* One call of convertToLokiFormat on the batch; the clock moves on.
Convert ==
    /\ Len(lokiRequests) < MaxConversions
    /\ lokiRequests' = Append(lokiRequests, ConvertToLokiFormat(logsToSend, now))
    /\ now' = now + 1
    /\ UNCHANGED <<logBuffer, inFlight, lastFlush, lastError, isShuttingDown,
                   intervalId, destroyPc, destroyBatch, delivered, dropped, nextId,
                   lastResponse, mqttVars, logsToSend, lastReturn>>

FormatNext == Convert

FormatSpec == FormatInit /\ [][FormatNext]_vars

\* ------------------------------------------ claims about convertToLokiFormat

\* The full label set of an entry: severity, device_id and every extra label
\* that is present, as a set of label/value pairs.
LabelSet(entry) ==
    {<<"severity", entry.severity>>, <<"device_id", entry.device_id>>,
     <<"source", Str(entry.labels.source)>>}
        \cup (IF entry.labels.metadata = Undefined THEN {}
              ELSE {<<"metadata", entry.labels.metadata>>})

\* The stream of request that holds the pair of the batch's entry number id.
StreamOf(request, id) ==
    CHOOSE k \in 1..Len(request.streams) : id \in Range(request.streams[k].ids)

\* C21: two entries of the batch are in the same stream of the request if
\* and only if their full label sets are equal as sets of label/value pairs.
C21_GroupedByLabelSet ==
    \A r \in 1..Len(lokiRequests) :
        \A i, j \in 1..Len(logsToSend) :
            (StreamOf(lokiRequests[r], i) = StreamOf(lokiRequests[r], j))
                <=> (LabelSet(logsToSend[i]) = LabelSet(logsToSend[j]))

\* Two entries with the labels severity info, device dev42 and different
\* messages went into one stream with two values, a third entry with a
\* metadata label into another.
C21_Witness ==
    /\ Len(lokiRequests) >= 1
    /\ Len(logsToSend) = 3
    /\ logsToSend[1].message = "hello"
    /\ logsToSend[2].labels.metadata # Undefined
    /\ logsToSend[3].message = "oops"
    /\ LabelSet(logsToSend[1]) = LabelSet(logsToSend[3])
    /\ Len(lokiRequests[1].streams) = 2
    /\ lokiRequests[1].streams[1].ids = <<1, 3>>
    /\ Len(lokiRequests[1].streams[1].values) = 2

\* ------------------------------------------------ claims about delivery

\* C22: a step that flushes a non-empty buffer starts exactly one push, and
\* that push holds every entry detached; the push delivers its whole batch
\* if the sink answers 204, and with any other status or no answer it
\* delivers nothing of it: the whole batch is re-queued or dropped.
C22_OnePushAllOrNothing ==
    [][/\ Started # {}
            => /\ Cardinality(Started) = 1
               /\ \A b \in Started : b # <<>> /\ IsBufferPlusAccepted(b)
       /\ \A b \in Settled :
            /\ lastResponse' = "204" => delivered' = delivered \cup Range(b)
            /\ lastResponse' # "204"
                 => /\ delivered' = delivered
                    /\ \/ Range(b) \subseteq Range(logBuffer')
                       \/ Range(b) \subseteq dropped']_vars

\* The sink answered a push with status 200: nothing was delivered and the
\* whole batch is back in the live buffer.
C22_Witness ==
    /\ lastResponse = "200"
    /\ lastError = "Unexpected response status: 200"
    /\ delivered = {}
    /\ inFlight = {}
    /\ Len(logBuffer) >= 2

\* No delivery attempt fails in this step.
NoFailure == \A b \in Settled : ~FailedStep(b)

\* Nothing is waiting: the live buffer is empty and no batch is in flight.
AllSettled == logBuffer = <<>> /\ inFlight = {}

\* C23: if shutdown never begins and from some point on no delivery attempt
\* fails, then eventually nothing is dropped any more, every accepted entry
\* not dropped before is delivered and, appends having stopped, the live
\* buffer becomes and stays empty with no batch in flight.
C23_RecoversWhenSinkRecovers ==
    (<>[][NoFailure]_vars /\ []~isShuttingDown)
        => /\ <>[]AllSettled
           /\ <>[][dropped' = dropped]_vars
           /\ \A id \in 1..MaxEntries :
                <>[](\/ \E e \in delivered : e.id = id
                     \/ \E e \in dropped : e.id = id
                     \/ id >= nextId)

\* After a failed batch was dropped, later entries were delivered and
\* nothing is left waiting.
C23_Witness ==
    /\ AllSettled
    /\ ~isShuttingDown
    /\ lastResponse = "204"
    /\ dropped # {}
    /\ delivered # {}
    /\ nextId = MaxEntries + 1

\* C24: the live buffer lists its entries in the order of their acceptance:
\* an older entry never sits behind a newer one.
C24_BufferInAcceptanceOrder ==
    \A i, j \in 1..Len(logBuffer) : i < j => logBuffer[i].id < logBuffer[j].id

\* The payload decoded to a structured record (a JSON object).
StructuredRecord == published.json /\ published.value.t = "object"

\* C25: for a payload that decodes as a structured record, the entry's device
\* identity is the record's deviceId when present and non-empty and otherwise
\* the identity derived from the topic, and the entry's message is the
\* record's message field when it is a string and otherwise the whole record
\* serialized back to text.
C25_StructuredDeviceAndMessage ==
    (Handled /\ StructuredRecord) =>
        LET f == published.value.f IN
        /\ logEntry.t = "LogEntry"
        /\ logEntry.device_id =
               (IF f.deviceId.t = "string" /\ f.deviceId.v # "" THEN f.deviceId
                ELSE Str(DeviceOfParts))
        /\ logEntry.message =
               (IF f.message.t = "string" THEN f.message.v ELSE published.text)

\* The record's timestamp field is present and parses to a valid time.
ValidExplicitTimestamp ==
    /\ StructuredRecord
    /\ \/ published.value.f.timestamp.t = "number"
       \/ /\ published.value.f.timestamp.t = "string"
          /\ published.value.f.timestamp.v \in ValidDateTexts

\* C26: the entry's timestamp is the payload's explicit timestamp when that
\* field is present and parses to a valid time, and the ingestion time when
\* the field is absent or does not parse and for every plain-text payload;
\* so the entry always carries a valid timestamp.
C26_TimestampValidOrIngestion ==
    (Handled /\ logEntry.t = "LogEntry") =>
        /\ logEntry.timestamp.v # "Invalid Date"
        /\ logEntry.timestamp =
               (IF ValidExplicitTimestamp
                THEN [t |-> "date", v |-> published.value.f.timestamp.v]
                ELSE Now)

\* The record's level field, undefined for a payload that is no record.
ExplicitLevel == IF StructuredRecord THEN published.value.f.level ELSE Undefined

\* What the keyword scan is run over: the payload's text in lower case.
ScannedText == ToLowerCase(published.text)

\* C27: with no recognised explicit severity and no topic hint, a level the
\* alias table recognises gives the severity; otherwise content holding
\* error, exception or fail gives error, otherwise content holding warn gives
\* warning, otherwise the severity is info.
C27_LevelThenKeywords ==
    (/\ Handled
     /\ logEntry.t = "LogEntry"
     /\ ~Recognised
     /\ HintOfParts = "none")
        => logEntry.severity =
              (IF ExplicitLevel.t = "string" /\ AliasOf(ExplicitLevel.v) # "none"
               THEN Str(AliasOf(ExplicitLevel.v))
               ELSE Str(KeywordsOfText(ScannedText)))

\* The positions of a request's pairs: stream k, pair p.
PairPositions(request) ==
    UNION {{<<k, p>> : p \in 1..Len(request.streams[k].values)} :
              k \in 1..Len(request.streams)}

\* C28: grouping partitions the batch: every entry contributes exactly one
\* pair to exactly one stream, the number of pairs is the batch size, and
\* within a stream the pairs follow the entries' order in the batch.
C28_GroupingIsPartition ==
    \A r \in 1..Len(lokiRequests) :
        LET request == lokiRequests[r] IN
        /\ Cardinality(PairPositions(request)) = Len(logsToSend)
        /\ \A i \in 1..Len(logsToSend) :
               Cardinality({kp \in PairPositions(request) :
                               request.streams[kp[1]].ids[kp[2]] = i}) = 1
        /\ \A k \in 1..Len(request.streams) :
               LET stream == request.streams[k] IN
               /\ stream.values # <<>>
               /\ Len(stream.ids) = Len(stream.values)
               /\ \A p \in 1..Len(stream.values) :
                      /\ stream.values[p][2] = logsToSend[stream.ids[p]].message
                      /\ \A q \in 1..Len(stream.values) :
                             p < q => stream.ids[p] < stream.ids[q]

\* A batch oops, oops with metadata, hello was grouped: the first
\* stream holds the first and the third entry's pairs in that order.
C28_Witness ==
    /\ Len(logsToSend) = 3
    /\ Len(lokiRequests) >= 1
    /\ Len(lokiRequests[1].streams) = 2
    /\ Len(lokiRequests[1].streams[1].values) = 2
    /\ lokiRequests[1].streams[1].values[1][2] = "oops"
    /\ lokiRequests[1].streams[1].values[2][2] = "hello"
    /\ lokiRequests[1].streams[1].ids = <<1, 3>>
    /\ lokiRequests[1].streams[2].ids = <<2>>

\* C29: grouping is idempotent and free of side effects: a conversion leaves
\* the batch and the live buffer as they were, and every conversion of the
\* unmodified batch yields the same streams as the first, whenever it is made.
C29_GroupingIdempotent ==
    [][lokiRequests' # lokiRequests =>
          /\ logsToSend' = logsToSend
          /\ logBuffer' = logBuffer
          /\ \A i \in 1..Len(lokiRequests') :
                 lokiRequests'[i].streams = lokiRequests'[1].streams]_vars

\* A batch of two entries in two streams was converted twice, at two clock
\* readings, with the same result.
C29_Witness ==
    /\ Len(lokiRequests) = 2
    /\ now = 2
    /\ Len(logsToSend) = 2
    /\ Len(lokiRequests[1].streams) = 2
    /\ lokiRequests[2].streams = lokiRequests[1].streams

\* s is written with decimal digits only.
RECURSIVE IsDecimal(_)
IsDecimal(s) ==
    \/ s = ""
    \/ /\ Head(s) \in {"0", "1", "2", "3", "4", "5", "6", "7", "8", "9"}
       /\ IsDecimal(Tail(s))

\* The pairs of a request with the entry each came from.
SentPairs(request) ==
    {[entry |-> logsToSend[request.streams[kp[1]].ids[kp[2]]],
      text |-> request.streams[kp[1]].values[kp[2]][1]] :
        kp \in PairPositions(request)}

\* C30: the timestamp sent for an entry is the decimal string of its
\* milliseconds since the epoch times 1,000,000: digits only, ending in six
\* zeros, and the same string for entries with the same timestamp.
C30_NanosecondsDecimal ==
    \A r \in 1..Len(lokiRequests) :
        \A x \in SentPairs(lokiRequests[r]) :
            /\ IsDecimal(x.text)
            /\ Len(x.text) > 6
            /\ SubSeq(x.text, Len(x.text) - 5, Len(x.text)) = "000000"
            /\ x.text = GetTime(x.entry.timestamp) \o "000000"
            /\ \A y \in SentPairs(lokiRequests[r]) :
                   x.entry.timestamp = y.entry.timestamp => x.text = y.text

\* ------------------------------------------- claims about errors and frames

\* C31: a delivery failure never propagates to the caller: when the push a
\* flush awaits fails, the promise of flushLogs, which pushLog, pushLogs and
\* forceFlush await, is resolved, and the failure shows only in lastError
\* and in the batch being back in the live buffer or dropped.
C31_FailureStaysInside ==
    [][\A b \in Settled : FailedStep(b) =>
          /\ lastReturn' = "resolved"
          /\ lastError' # NoError
          /\ lastError' = SendToLoki(lastResponse')
          /\ Range(b) \subseteq Range(logBuffer') \/ Range(b) \subseteq dropped'
          /\ UNCHANGED <<lastFlush, delivered, isShuttingDown, intervalId, nextId>>]_vars

\* The push of a full batch timed out: flushLogs returned normally, the
\* error is recorded and the batch is back in the buffer.
C31_Witness ==
    /\ lastReturn = "resolved"
    /\ lastResponse = "timeout"
    /\ lastError = "Loki API error: undefined"
    /\ inFlight = {}
    /\ Len(logBuffer) = BatchSize
    /\ lastFlush = 0
    /\ ~isShuttingDown

\* C32: flushing an empty live buffer is a no-op: a step taken with an empty
\* buffer that accepts no entry and settles no push starts no push and
\* leaves the buffer, lastFlush, lastError and the reported status as they
\* were; a recorded error is not cleared.
C32_EmptyFlushIsNoOp ==
    [][(logBuffer = <<>> /\ Accepted = 0 /\ Settled = {}) =>
          /\ Started = {}
          /\ inFlight' = inFlight
          /\ logBuffer' = <<>>
          /\ lastFlush' = lastFlush
          /\ lastError' = lastError
          /\ Status' = Status
          /\ BufferedLogs' = 0]_vars

\* The buffer is empty while an error is on record and a flush has succeeded
\* before: forceFlush can be called and finds nothing to send.
C32_Witness ==
    /\ logBuffer = <<>>
    /\ lastError # NoError
    /\ Status = "error"
    /\ lastFlush > 0
    /\ ~isShuttingDown
    /\ ENABLED ForceFlush

\* C33: once shutdown has begun it stays begun and nothing is accepted: no
\* step adds an entry, a flush that starts sends only what was buffered, and
\* the live buffer grows only when a failed batch is put back in front of it.
C33_NothingAcceptedInShutdown ==
    [][isShuttingDown =>
          /\ isShuttingDown'
          /\ Accepted = 0
          /\ Started # {} => Started = {logBuffer}
          /\ Range(logBuffer') \subseteq Range(logBuffer) \cup UNION {Range(b) : b \in Settled}
          /\ Len(logBuffer') > Len(logBuffer)
                => \E b \in Settled : FailedStep(b) /\ logBuffer' = b \o logBuffer]_vars

\* Shutdown is over, its final flush failed and the batch is back in the
\* buffer; pushLog can still be called with a valid entry.
C33_Witness ==
    /\ isShuttingDown
    /\ destroyPc = "done"
    /\ logBuffer # <<>>
    /\ lastError # NoError
    /\ nextId <= MaxEntries
    /\ ENABLED PushLog([message |-> "m", device_id |-> "d1", severity |-> "info"])

====
